---- MODULE Spec2Model ----
(***************************************************************************)
(* A model of src/app.py: the key normalizer, the icon indexer, the slug   *)
(* generator (with its lru_cache), the leaf taxonomy parser, the three     *)
(* icon resolvers, the record builder and the two read endpoints.          *)
(*                                                                         *)
(* A Python str is a sequence of one-character strings.  Python's None is  *)
(* NoneVal and pandas' NaN is NaN, two one-element sequences whose element *)
(* is not a character, so that they differ from every str.                 *)
(***************************************************************************)
EXTENDS Naturals, Sequences, FiniteSets

VARIABLES
    pc,                  \* position of the process / of the function under test
    call,                \* the call being made: [fn, args]
    ret,                 \* what the last call returned
    sheet,               \* whether data/species.xlsx exists, and its rows as pandas reads them
    icon_files,          \* os.listdir of the three icon directories
    photo_files,         \* static/photos and static/Photos: whether each is a directory, and its directories
    SPECIES_ICON_INDEX,  \* app.py:64
    LEAF_ICON_INDEX,     \* app.py:65
    FRUIT_ICON_INDEX,    \* app.py:66
    SPECIES_LIST,        \* app.py:214
    SPECIES_DICT,        \* app.py:214
    FILTERS,             \* app.py:214
    slug_cache           \* the lru_cache of slugify, least recently used first

vars == <<pc, call, ret, sheet, icon_files, photo_files, SPECIES_ICON_INDEX, LEAF_ICON_INDEX,
          FRUIT_ICON_INDEX, SPECIES_LIST, SPECIES_DICT, FILTERS, slug_cache>>

-----------------------------------------------------------------------------
(* Python values *)

NoneVal == <<"None">>
NaN == <<"NaN">>

\* a bool, an int and a float: True, 1 and 1.0
BoolTrue == <<"bool True">>
IntOne == <<"int 1">>
FloatOne == <<"float 1.0">>

\* bool(v) for None, str, and NaN, True, 1, 1.0 (numbers that are not zero)
Truthy(v) == v # NoneVal /\ v # <<>>

\* v or d
OrElse(v, d) == IF Truthy(v) THEN v ELSE d

EmptyDict == [k \in {} |-> NoneVal]

\* d[key] = value on a dict
DictSet(d, key, value) ==
    [k \in (DOMAIN d) \cup {key} |-> IF k = key THEN value ELSE d[k]]

\* d.get(key)
DictGet(d, key) == IF key \in DOMAIN d THEN d[key] ELSE NoneVal

-----------------------------------------------------------------------------
(* Characters *)

UpperSeq == <<"A","B","C","D","E","F","G","H","I","J","K","L","M",
              "N","O","P","Q","R","S","T","U","V","W","X","Y","Z">>
LowerSeq == <<"a","b","c","d","e","f","g","h","i","j","k","l","m",
              "n","o","p","q","r","s","t","u","v","w","x","y","z">>
DigitSeq == <<"0","1","2","3","4","5","6","7","8","9">>

Range(f) == {f[i] : i \in DOMAIN f}

UpperLetters == Range(UpperSeq)
LowerLetters == Range(LowerSeq)
Digits == Range(DigitSeq)

\* what str.strip() strips and the regex class \s matches, among the characters
\* of the model (AsciiSeq below)
Whitespace == {" ", "\t", "\n", "\f", "\r"}

\* str.lower() on one character
LowerChar(c) ==
    IF c \in UpperLetters
    THEN LowerSeq[CHOOSE i \in DOMAIN UpperSeq : UpperSeq[i] = c]
    ELSE c

-----------------------------------------------------------------------------
(* str methods and the regular expressions app.py uses *)

\* s.lower()
Lower(s) == [i \in DOMAIN s |-> LowerChar(s[i])]

RECURSIVE LStrip(_, _)
LStrip(s, cls) ==
    IF s # <<>> /\ Head(s) \in cls THEN LStrip(Tail(s), cls) ELSE s

RECURSIVE RStrip(_, _)
RStrip(s, cls) ==
    IF s # <<>> /\ s[Len(s)] \in cls
    THEN RStrip(SubSeq(s, 1, Len(s) - 1), cls)
    ELSE s

\* s.strip(chars); s.strip() is StripChars(s, Whitespace)
StripChars(s, cls) == RStrip(LStrip(s, cls), cls)

\* re.sub('[cls]+', rep, s): every maximal run of cls characters becomes rep
RECURSIVE SubRuns(_, _, _)
SubRuns(s, cls, rep) ==
    IF s = <<>> THEN <<>>
    ELSE IF Head(s) \in cls
         THEN rep \o SubRuns(LStrip(s, cls), cls, rep)
         ELSE <<Head(s)>> \o SubRuns(Tail(s), cls, rep)

\* re.sub('[^keep]', '', s)
DeleteExcept(s, keep) == SelectSeq(s, LAMBDA c : c \in keep)

\* sub in s
Contains(s, sub) ==
    \E i \in 0..(Len(s) - Len(sub)) : SubSeq(s, i + 1, i + Len(sub)) = sub

\* s.startswith(prefix)
StartsWith(s, prefix) ==
    Len(prefix) <= Len(s) /\ SubSeq(s, 1, Len(prefix)) = prefix

-----------------------------------------------------------------------------
(* isinstance(v, str) and str(v) for the values a cell or an argument can hold *)

IsStr(v) == v \notin {NoneVal, NaN, BoolTrue, IntOne, FloatOne}

Str(v) ==
    CASE v = NoneVal -> <<"N","o","n","e">>
      [] v = NaN -> <<"n","a","n">>
      [] v = BoolTrue -> <<"T","r","u","e">>
      [] v = IntOne -> <<"1">>
      [] v = FloatOne -> <<"1",".","0">>
      [] OTHER -> v

-----------------------------------------------------------------------------
(* _norm_key, app.py:40-47 *)

\* a variant of _norm_key that forgets to lower-case
NormKeyNoLower(s) ==
    LET s0 == IF IsStr(s) THEN s ELSE Str(OrElse(s, <<>>))
        s1 == StripChars(s0, Whitespace)
        s2 == SubRuns(s1, {"_", "-"}, <<" ">>)
        s3 == DeleteExcept(s2, LowerLetters \cup Digits \cup Whitespace)
    IN  StripChars(SubRuns(s3, Whitespace, <<" ">>), Whitespace)

\* a variant of _norm_key that forgets the final strip
NormKeyNoFinalStrip(s) ==
    LET s0 == IF IsStr(s) THEN s ELSE Str(OrElse(s, <<>>))
        s1 == Lower(StripChars(s0, Whitespace))
        s2 == SubRuns(s1, {"_", "-"}, <<" ">>)
        s3 == DeleteExcept(s2, LowerLetters \cup Digits \cup Whitespace)
    IN  SubRuns(s3, Whitespace, <<" ">>)

_norm_key(s) ==
    LET s0 == IF IsStr(s) THEN s ELSE Str(OrElse(s, <<>>))  \* str(s or '')
        s1 == Lower(StripChars(s0, Whitespace))             \* s.strip().lower()
        s2 == SubRuns(s1, {"_", "-"}, <<" ">>)              \* [_\-]+ -> ' '
        s3 == DeleteExcept(s2, LowerLetters \cup Digits \cup Whitespace)
    IN  StripChars(SubRuns(s3, Whitespace, <<" ">>), Whitespace)

-----------------------------------------------------------------------------
(* slugify, app.py:69-77 *)

\* the decorated function's body
slugify(name) ==
    LET s1 == Lower(StripChars(Str(name), Whitespace))        \* strip().lower()
        s2 == SubRuns(s1, Whitespace \cup {"_"}, <<"-">>)     \* [\s_]+ -> '-'
        s3 == DeleteExcept(s2, LowerLetters \cup Digits \cup {"-"})
    IN  StripChars(SubRuns(s3, {"-"}, <<"-">>), {"-"})        \* -+ -> '-', strip('-')

\* @lru_cache(maxsize=1024)
maxsize == 1024

\* The key the cache keeps for a call with one argument: a str or an int is its
\* own key, anything else is wrapped in a tuple.  object names the object
\* passed, which matters for a NaN alone: it is not equal to itself, so its key
\* is found only by identity.
make_key(name, object) == IF name = NaN THEN <<"NaN", object>> ELSE name

\* key equality in the cache's dict (typed=False): by value for str, int and
\* None, by identity for NaN, and (True,) == (1.0,) while the int 1 is a key of
\* another type
KeyEq(k1, k2) == k1 = k2 \/ {k1, k2} = {BoolTrue, FloatOne}

\* the argument a key was made from
KeyName(key) == IF Len(key) = 2 /\ key[1] = "NaN" THEN NaN ELSE key

CacheHits(cache, key) == {i \in DOMAIN cache : KeyEq(cache[i][1], key)}

\* one call of the memoized slugify: the value returned and the cache after it.
\* A hit moves the entry found to the most recent end; a miss computes the
\* value from the argument, appends an entry and drops the oldest beyond maxsize.
lru_cache_call(cache, key) ==
    IF CacheHits(cache, key) # {}
    THEN LET i == CHOOSE h \in CacheHits(cache, key) : TRUE
         IN  [value |-> cache[i][2],
              cache |-> SubSeq(cache, 1, i - 1) \o SubSeq(cache, i + 1, Len(cache))
                        \o <<cache[i]>>]
    ELSE LET v == slugify(KeyName(key))
             full == cache \o <<<<key, v>>>>
         IN  [value |-> v,
              cache |-> IF Len(full) > maxsize THEN Tail(full) ELSE full]

-----------------------------------------------------------------------------
(* _leaf_category_and_subtype, app.py:80-94 *)

S_simple == <<"s","i","m","p","l","e">>
S_pinnately == <<"p","i","n","n","a","t","e","l","y">>
S_pinnate == <<"p","i","n","n","a","t","e">>
S_compound == <<"c","o","m","p","o","u","n","d">>
S_palmately == <<"p","a","l","m","a","t","e","l","y">>
S_palmate == <<"p","a","l","m","a","t","e">>
S_single == <<"s","i","n","g","l","e">>
S_double == <<"d","o","u","b","l","e">>
S_triple == <<"t","r","i","p","l","e">>
S_leaf == <<"l","e","a","f">>
SP == <<" ">>

Simple == <<"S">> \o Tail(S_simple)
PinnatelyCompound == <<"P">> \o Tail(S_pinnately) \o SP \o S_compound
PalmatelyCompound == <<"P">> \o Tail(S_palmately) \o SP \o S_compound

\* app.py:35-36
LEAF_TOPLEVEL == <<Simple, PinnatelyCompound, PalmatelyCompound>>
LEAF_SUBTYPES == <<S_single, S_double>>

\* the alternation of the regex at app.py:88
TagWords == <<S_single, S_double, S_triple>>

\* the regex matches at position i of t (re.IGNORECASE) with group 1 = w
TagAt(t, i, w) ==
    /\ i + Len(w) + 1 <= Len(t)
    /\ t[i] = "("
    /\ Lower(SubSeq(t, i + 1, i + Len(w))) = w
    /\ t[i + Len(w) + 1] = ")"

\* re.search(r"\((single|double|triple)\)", t, re.IGNORECASE): group 1 of the
\* leftmost match, or None
SearchTag(t) ==
    LET hits == {i \in DOMAIN t : \E k \in DOMAIN TagWords : TagAt(t, i, TagWords[k])}
    IN  IF hits = {} THEN NoneVal
        ELSE LET i == CHOOSE h \in hits : \A g \in hits : h <= g
                 k == CHOOSE j \in DOMAIN TagWords : TagAt(t, i, TagWords[j])
             IN  SubSeq(t, i + 1, i + Len(TagWords[k]))

\* a variant that tests "palmate" before "compound"
LeafPalmateFirst(leaf_type_value) ==
    IF ~IsStr(leaf_type_value) THEN <<NoneVal, NoneVal>>
    ELSE
    LET t == StripChars(leaf_type_value, Whitespace)
        tl == Lower(t)
        m == SearchTag(t)
    IN  IF Contains(tl, S_simple) THEN <<Simple, NoneVal>>
        ELSE IF Contains(tl, S_palmate) THEN <<PalmatelyCompound, NoneVal>>
        ELSE IF Contains(tl, S_pinnate) \/ Contains(tl, S_compound)
             THEN <<PinnatelyCompound, IF m # NoneVal THEN Lower(m) ELSE NoneVal>>
        ELSE <<NoneVal, NoneVal>>

_leaf_category_and_subtype(leaf_type_value) ==
    IF ~IsStr(leaf_type_value) THEN <<NoneVal, NoneVal>>   \* not a str
    ELSE
    LET t == StripChars(leaf_type_value, Whitespace)
        tl == Lower(t)
        m == SearchTag(t)
        subtype == IF Truthy(m) THEN Lower(m) ELSE NoneVal
    IN  IF StartsWith(tl, S_simple) \/ Contains(tl, S_simple)
        THEN <<Simple, NoneVal>>
        ELSE IF StartsWith(tl, S_pinnately) \/ Contains(tl, S_pinnate)
                \/ Contains(tl, S_compound)
        THEN <<PinnatelyCompound, subtype>>
        ELSE IF StartsWith(tl, S_palmately) \/ Contains(tl, S_palmate)
        THEN <<PalmatelyCompound, NoneVal>>
        ELSE <<NoneVal, NoneVal>>

-----------------------------------------------------------------------------
(* The asset directories and _build_icon_index, app.py:19-26, 49-66 *)

SpeciesDir == "static/Icons/Species"
LeafDir == "static/Icons/Leaf"
FruitDir == "static/Icons/Fruit"
ICON_DIRS == [species |-> SpeciesDir, leaf |-> LeafDir, fruit |-> FruitDir]

\* app.py:10-16: PHOTO_ROOT relative to APP_ROOT, the first of the two names that
\* is a directory, and the first name when neither is
PhotoRootCandidates == <<"static/photos", "static/Photos">>

PHOTO_ROOT ==
    LET found == {i \in DOMAIN PhotoRootCandidates :
                     photo_files[PhotoRootCandidates[i]].isdir}
    IN  IF found = {} THEN PhotoRootCandidates[1]
        ELSE PhotoRootCandidates[CHOOSE i \in found : \A j \in found : i <= j]

ALLOWED_IMG_EXT ==
    { <<".","j","p","g">>, <<".","j","p","e","g">>, <<".","p","n","g">>,
      <<".","w","e","b","p">>, <<".","g","i","f">>, <<".","b","m","p">> }

\* os.path.splitext on a file name: <<root, ext>>.  The extension starts at the
\* last dot unless only dots precede it.
SplitExt(fname) ==
    LET dots == {i \in DOMAIN fname : fname[i] = "."}
    IN  IF dots = {} THEN <<fname, <<>>>>
        ELSE LET d == CHOOSE i \in dots : \A j \in dots : j <= i
             IN  IF \E k \in 1..(d - 1) : fname[k] # "."
                 THEN <<SubSeq(fname, 1, d - 1), SubSeq(fname, d, Len(fname))>>
                 ELSE <<fname, <<>>>>

\* s.replace(old, new) for two characters
ReplaceChar(s, old, new) == [i \in DOMAIN s |-> IF s[i] = old THEN new ELSE s[i]]

\* '/' + os.path.relpath(full, APP_ROOT).replace('\\', '/')
AssetPath(folder, fname) == <<"/", folder, "/">> \o ReplaceChar(fname, "\\", "/")

\* the loop of _build_icon_index over the first n directory entries
RECURSIVE IndexOf(_, _, _)
IndexOf(folder_path, entries, n) ==
    IF n = 0 THEN EmptyDict
    ELSE LET out == IndexOf(folder_path, entries, n - 1)
             e == entries[n]
             parts == SplitExt(e.name)
         IN  IF ~e.isfile THEN out
             ELSE IF Lower(parts[2]) \notin ALLOWED_IMG_EXT THEN out
             ELSE DictSet(out, _norm_key(parts[1]), AssetPath(folder_path, e.name))

\* icon_files[folder_path] tells whether folder_path is a directory and holds
\* os.listdir(folder_path)
_build_icon_index(folder_path) ==
    LET folder == icon_files[folder_path]
    IN  IF ~folder.isdir THEN EmptyDict
        ELSE IndexOf(folder_path, folder.entries, Len(folder.entries))

-----------------------------------------------------------------------------
(* _pick_species_icon, app.py:97-107 *)

\* re.sub(r'\(.*?\)', '', c): each "(" up to the nearest ")" after it, with no
\* newline between, is removed, left to right
RECURSIVE ParenStrip(_)
ParenStrip(c) ==
    IF c = <<>> THEN <<>>
    ELSE LET closes == {j \in 2..Len(c) :
                           /\ c[j] = ")"
                           /\ \A k \in 2..(j - 1) : c[k] # "\n"}
         IN  IF Head(c) = "(" /\ closes # {}
             THEN LET j == CHOOSE x \in closes : \A y \in closes : x <= y
                  IN  ParenStrip(SubSeq(c, j + 1, Len(c)))
             ELSE <<Head(c)>> \o ParenStrip(Tail(c))

InSeq(x, seq) == \E i \in DOMAIN seq : seq[i] = x

\* the candidate list after the first loop
Candidates(scientific, common) ==
    LET c0 == <<OrElse(scientific, <<>>), OrElse(common, <<>>)>>
        a == StripChars(ParenStrip(c0[1]), Whitespace)
        c1 == IF Truthy(a) /\ ~InSeq(a, c0) THEN Append(c0, a) ELSE c0
        b == StripChars(ParenStrip(c0[2]), Whitespace)
    IN  IF Truthy(b) /\ ~InSeq(b, c1) THEN Append(c1, b) ELSE c1

\* the first key of keys that is in index, looked up; None when there is none
FirstHit(index, keys) ==
    LET hits == {i \in DOMAIN keys : keys[i] \in DOMAIN index}
    IN  IF hits = {} THEN NoneVal
        ELSE index[keys[CHOOSE i \in hits : \A j \in hits : i <= j]]

\* a variant that tries only the two names as given
PickSpeciesNoStrip(scientific, common) ==
    FirstHit(SPECIES_ICON_INDEX,
             <<_norm_key(OrElse(scientific, <<>>)), _norm_key(OrElse(common, <<>>))>>)

_pick_species_icon(scientific, common) ==
    LET candidates == Candidates(scientific, common)
    IN  FirstHit(SPECIES_ICON_INDEX,
                 [i \in DOMAIN candidates |-> _norm_key(candidates[i])])

-----------------------------------------------------------------------------
(* _pick_leaf_icon, app.py:110-128 *)

LeafKeys(toplevel, subtype) ==
    LET tl == Lower(OrElse(toplevel, <<>>))
    IN  IF StartsWith(tl, S_simple)
        THEN <<S_simple \o SP \o S_leaf, S_simple>>
        ELSE IF StartsWith(tl, S_pinnately)
        THEN IF subtype = S_single
             THEN <<S_single \o SP \o S_compound, S_pinnately \o SP \o S_single,
                    S_pinnately \o SP \o S_compound \o SP \o S_single>>
             ELSE IF subtype = S_double
             THEN <<S_double \o SP \o S_compound, S_pinnately \o SP \o S_double,
                    S_pinnately \o SP \o S_compound \o SP \o S_double>>
             ELSE <<S_pinnately \o SP \o S_compound, S_compound>>
        ELSE IF StartsWith(tl, S_palmately)
        THEN <<S_palmately \o SP \o S_compound, S_palmate, S_palmately>>
        ELSE <<>>

_pick_leaf_icon(toplevel, subtype) ==
    LET keys == LeafKeys(toplevel, subtype)
    IN  FirstHit(LEAF_ICON_INDEX, [i \in DOMAIN keys |-> _norm_key(keys[i])])

-----------------------------------------------------------------------------
(* _pick_fruit_icon, app.py:131-140 *)

S_pod == <<"p","o","d">>
S_capsule == <<"c","a","p","s","u","l","e">>
S_drupe == <<"d","r","u","p","e">>
S_other == <<"o","t","h","e","r">>
FruitAliases == <<S_pod, S_capsule, S_drupe, S_other>>

\* a variant whose alias step forgets the test nk == alias
PickFruitAnyAlias(fruit_type) ==
    IF ~Truthy(fruit_type) THEN NoneVal
    ELSE LET nk == _norm_key(fruit_type)
         IN  IF nk \in DOMAIN FRUIT_ICON_INDEX THEN FRUIT_ICON_INDEX[nk]
             ELSE FirstHit(FRUIT_ICON_INDEX, FruitAliases)

_pick_fruit_icon(fruit_type) ==
    IF ~Truthy(fruit_type) THEN NoneVal
    ELSE LET nk == _norm_key(fruit_type)
             aliases == SelectSeq(FruitAliases, LAMBDA alias : nk = alias)
         IN  IF nk \in DOMAIN FRUIT_ICON_INDEX THEN FRUIT_ICON_INDEX[nk]
             ELSE FirstHit(FRUIT_ICON_INDEX, aliases)

-----------------------------------------------------------------------------
(* Ordering of str, for sorted() *)

\* the characters of the model in the order of their code points: \t, \n, \f, \r
\* and the printable ASCII characters but the grave accent, which no string of
\* this module can hold
AsciiSeq ==
    <<"\t", "\n", "\f", "\r", " ", "!", "\"", "#", "$", "%", "&", "'", "(", ")", "*",
      "+", ",", "-", ".", "/">>
        \o DigitSeq \o <<":", ";", "<", "=", ">", "?", "@">>
        \o UpperSeq \o <<"[", "\\", "]", "^", "_">>
        \o LowerSeq \o <<"{", "|", "}", "~">>

Ord(c) == CHOOSE i \in DOMAIN AsciiSeq : AsciiSeq[i] = c

\* a < b for two str
RECURSIVE StrLess(_, _)
StrLess(a, b) ==
    IF b = <<>> THEN FALSE
    ELSE IF a = <<>> THEN TRUE
    ELSE IF Head(a) = Head(b) THEN StrLess(Tail(a), Tail(b))
    ELSE Ord(Head(a)) < Ord(Head(b))

\* sorted(set of str)
RECURSIVE Sorted(_)
Sorted(S) ==
    IF S = {} THEN <<>>
    ELSE LET m == CHOOSE x \in S : \A y \in S \ {x} : StrLess(x, y)
         IN  <<m>> \o Sorted(S \ {m})

-----------------------------------------------------------------------------
(* load_and_process_data, app.py:143-211 *)

REQUIRED_COLS ==
    <<"Sr No", "Scientific name", "Etymology", "Common name", "Habitat", "Phenology",
      "Identification Characters", "Leaf type", "Fruit Type", "Seed Germination", "Pest">>

\* app.py:149-151: a missing column is added, holding ''
WithRequiredCols(row) ==
    [c \in (DOMAIN row) \cup Range(REQUIRED_COLS) |->
        IF c \in DOMAIN row THEN row[c] ELSE <<>>]

\* a variant of the filter that keeps rows whose name is only whitespace
HasNameUnstripped(row) ==
    /\ row["Scientific name"] # NaN
    /\ Str(row["Scientific name"]) # <<>>

\* app.py:153: the rows that are kept
HasName(row) ==
    /\ row["Scientific name"] # NaN
    /\ StripChars(Str(row["Scientific name"]), Whitespace) # <<>>

\* str(row.get(col, '')).strip()
Field(row, col) == StripChars(Str(row[col]), Whitespace)

\* app.py:164-170: photo_files[root].isdir tells whether root is a directory, and
\* photo_files[root].dirs[rec_id] holds the names in root/rec_id, defined when
\* that is a directory
PhotoPath(rec_id, fname) ==
    IF rec_id = <<>> THEN <<"/", PHOTO_ROOT, "/">> \o ReplaceChar(fname, "\\", "/")
    ELSE <<"/", PHOTO_ROOT, "/">> \o rec_id \o <<"/">> \o ReplaceChar(fname, "\\", "/")

Photos(rec_id) ==
    IF ~photo_files[PHOTO_ROOT].isdir \/ rec_id \notin DOMAIN photo_files[PHOTO_ROOT].dirs
    THEN <<>>
    ELSE LET listed == Range(photo_files[PHOTO_ROOT].dirs[rec_id])
             \* the pattern '*' matches no name that starts with a dot
             names == Sorted({f \in listed : f[1] # "."})
             ok == SelectSeq(names, LAMBDA f : Lower(SplitExt(f)[2]) \in ALLOWED_IMG_EXT)
         IN  [i \in DOMAIN ok |-> PhotoPath(rec_id, ok[i])]

\* the element of a one-element set: Only({e(v) : v \in {x}}) is e(x), with x
\* evaluated once
Only(S) == CHOOSE r \in S : TRUE

\* app.py:157-195: the record of one row, given its id and its leaf classification
RecordOf(row, rec_id, leaf) ==
    LET sci == Field(row, "Scientific name")
        com == Field(row, "Common name")
        leaf_raw == Field(row, "Leaf type")
        fruit_raw == Field(row, "Fruit Type")
    IN  [id |-> rec_id,
         sr_no |-> row["Sr No"],
         scientific_name |-> sci,
         etymology |-> Field(row, "Etymology"),
         common_name |-> com,
         habitat |-> Field(row, "Habitat"),
         phenology |-> Field(row, "Phenology"),
         identification |-> Field(row, "Identification Characters"),
         leaf_type_raw |-> leaf_raw,
         leaf_category |-> leaf[1],
         leaf_subtype |-> leaf[2],
         fruit_type |-> fruit_raw,
         seed_germination |-> Field(row, "Seed Germination"),
         pest |-> Field(row, "Pest"),
         photos |-> Photos(rec_id),
         icons |-> [species |-> _pick_species_icon(sci, com),
                    leaf |-> _pick_leaf_icon(leaf[1], leaf[2]),
                    fruit |-> _pick_fruit_icon(fruit_raw)]]

Record(row, rec_id) ==
    Only({RecordOf(row, rec_id, leaf) :
            leaf \in {_leaf_category_and_subtype(Field(row, "Leaf type"))}})

\* a variant of the loop body that keeps the first record of an id
AddRecordKeepFirst(acc, row) ==
    Only({[records_list |-> Append(acc.records_list, rec),
           records_dict |-> IF rec.id \in DOMAIN acc.records_dict THEN acc.records_dict
                            ELSE DictSet(acc.records_dict, rec.id, rec),
           cache |-> c.cache] :
            <<c, rec>> \in
                {<<k, Record(row, k.value)>> :
                    k \in {lru_cache_call(acc.cache, Field(row, "Scientific name"))}}})

\* app.py:156-197: one turn of the loop; c is the call rec_id = slugify(sci), of
\* a str, which is its own key
AddRecord(acc, row) ==
    Only({[records_list |-> Append(acc.records_list, rec),
           records_dict |-> DictSet(acc.records_dict, rec.id, rec),
           cache |-> c.cache] :
            <<c, rec>> \in
                {<<k, Record(row, k.value)>> :
                    k \in {lru_cache_call(acc.cache, Field(row, "Scientific name"))}}})

RECURSIVE Loop(_, _, _)
Loop(df, i, acc) ==
    IF i > Len(df) THEN acc
    ELSE Only({Loop(df, i + 1, a) : a \in {AddRecord(acc, df[i])}})

\* app.py:144-153: the data frame the loop runs over
DataFrame(xlsx) ==
    LET df == IF ~xlsx.exists THEN <<>>
              ELSE [i \in DOMAIN xlsx.rows |-> WithRequiredCols(xlsx.rows[i])]
    IN  SelectSeq(df, HasName)

\* app.py:199-210
FruitTypes(records_list) ==
    Sorted({StripChars(OrElse(records_list[i].fruit_type, <<>>), Whitespace) :
                i \in {j \in DOMAIN records_list :
                         StripChars(OrElse(records_list[j].fruit_type, <<>>),
                                    Whitespace) # <<>>}})

Filters(records_list) ==
    Only({[leaf_toplevel |-> LEAF_TOPLEVEL,
           leaf_subtypes_possible |-> LEAF_SUBTYPES,
           fruit_types |-> fruit_types,
           leaf_chip_icons |->
               [lt \in Range(LEAF_TOPLEVEL) |-> _pick_leaf_icon(lt, NoneVal)],
           fruit_chip_icons |->
               [ft \in Range(fruit_types) |-> _pick_fruit_icon(ft)]] :
            fruit_types \in {FruitTypes(records_list)}})

\* the three values returned, and the slug cache after the calls
load_and_process_data ==
    Only({[records_list |-> out.records_list,
           records_dict |-> out.records_dict,
           filters |-> Filters(out.records_list),
           cache |-> out.cache] :
            out \in {Loop(DataFrame(sheet), 1,
                          [records_list |-> <<>>, records_dict |-> EmptyDict,
                           cache |-> slug_cache])}})

-----------------------------------------------------------------------------
(* The endpoints, app.py:217-232 *)

\* a variant that serves the first record of the ordered list with that id
ApiOneFromList(rec_id) ==
    LET hits == {i \in DOMAIN SPECIES_LIST : SPECIES_LIST[i].id = rec_id}
    IN  IF hits = {} THEN [status |-> 404, body |-> [error |-> "Not found"]]
        ELSE [status |-> 200,
              body |-> SPECIES_LIST[CHOOSE i \in hits : \A j \in hits : i <= j]]

home == [status |-> 200, body |-> [template |-> "index.html"]]

api_species == [status |-> 200, body |-> [items |-> SPECIES_LIST, filters |-> FILTERS]]

\* SPECIES_DICT.get(rec_id) is None, or a record: a dict of sixteen keys, truthy
api_species_one(rec_id) ==
    IF rec_id \in DOMAIN SPECIES_DICT
    THEN [status |-> 200, body |-> SPECIES_DICT[rec_id]]
    ELSE [status |-> 404, body |-> [error |-> "Not found"]]

-----------------------------------------------------------------------------
(* Bounds and the inputs drawn within them *)

MaxLen == 3        \* length of the strings given to _norm_key
MaxSlugCalls == 3  \* calls of slugify in one run
MaxPieces == 2     \* pieces of a leaf-type text
MaxRows == 2       \* rows of the sheet

Strings(alphabet, n) == UNION {[1..k -> alphabet] : k \in 0..n}

NoCall == [fn |-> "none", args |-> <<>>, seq |-> 0]

\* the state of the variables a specification does not use
Unloaded ==
    /\ SPECIES_LIST = <<>>
    /\ SPECIES_DICT = EmptyDict
    /\ FILTERS = NoneVal
NoPhotoRoot == [isdir |-> FALSE, dirs |-> EmptyDict]
NoSheet ==
    /\ sheet = [exists |-> FALSE, rows |-> <<>>]
    /\ photo_files = [r \in Range(PhotoRootCandidates) |-> NoPhotoRoot]
NoIcons ==
    /\ icon_files = [d \in {SpeciesDir, LeafDir, FruitDir} |->
                        [isdir |-> FALSE, entries |-> <<>>]]
    /\ SPECIES_ICON_INDEX = EmptyDict
    /\ LEAF_ICON_INDEX = EmptyDict
    /\ FRUIT_ICON_INDEX = EmptyDict

-----------------------------------------------------------------------------
(* Specification SpecNorm: _norm_key applied to a string, then to its own result *)

NormAlphabet == {"a", "B", "7", " ", "_", "-", "!"}

RedSandalwood == <<"R","e","d"," ","S","a","n","d","a","l","w","o","o","d">>
Red_sandalwood == <<"r","e","d","_","s","a","n","d","a","l","w","o","o","d">>
RED_SANDALWOOD == <<"R","E","D","-","S","A","N","D","A","L","W","O","O","D","!","!">>
S_red_sandalwood == <<"r","e","d"," ","s","a","n","d","a","l","w","o","o","d">>

NormInputs ==
    Strings(NormAlphabet, MaxLen)
        \cup {NoneVal, NaN, BoolTrue, IntOne, FloatOne, RedSandalwood, Red_sandalwood, RED_SANDALWOOD,
              <<" ","a","_","-","!","B","\t">>, <<"A",".","b","-","-","c">>,
              <<"\f","a","\f","\\","b","\f">>, <<"a","~","\"","b">>}

InitNorm ==
    /\ pc = "call"
    /\ \E x \in NormInputs : call = [fn |-> "_norm_key", args |-> <<x>>, seq |-> 1]
    /\ ret = NoneVal
    /\ slug_cache = <<>>
    /\ NoSheet /\ NoIcons /\ Unloaded

CallNormKey ==
    /\ pc = "call"
    /\ call.fn = "_norm_key"
    /\ ret' = _norm_key(call.args[1])
    /\ pc' = "returned"
    /\ UNCHANGED <<call, sheet, icon_files, photo_files, SPECIES_ICON_INDEX,
                   LEAF_ICON_INDEX, FRUIT_ICON_INDEX, SPECIES_LIST, SPECIES_DICT,
                   FILTERS, slug_cache>>

\* the key just returned is normalized again
CallNormKeyAgain ==
    /\ pc = "returned"
    /\ call.fn = "_norm_key"
    /\ call.seq = 1
    /\ call' = [fn |-> "_norm_key", args |-> <<ret>>, seq |-> 2]
    /\ ret' = _norm_key(ret)
    /\ pc' = "returned"
    /\ UNCHANGED <<sheet, icon_files, photo_files, SPECIES_ICON_INDEX,
                   LEAF_ICON_INDEX, FRUIT_ICON_INDEX, SPECIES_LIST, SPECIES_DICT,
                   FILTERS, slug_cache>>

NextNorm == CallNormKey \/ CallNormKeyAgain

SpecNorm == InitNorm /\ [][NextNorm]_vars

\* The strings that differ from x in one place only: a letter in the other case,
\* one of space, underscore and hyphen in place of another, or one punctuation
\* character, other than underscore and hyphen, more or less.
Separators == {" ", "_", "-"}
Punctuation ==
    Range(AsciiSeq) \ (UpperLetters \cup LowerLetters \cup Digits \cup Whitespace
                           \cup {"_", "-"})
OtherCase(c) ==
    IF c \in UpperLetters THEN LowerChar(c)
    ELSE UpperSeq[CHOOSE i \in DOMAIN LowerSeq : LowerSeq[i] = c]
Inserted(x, chars) ==
    {SubSeq(x, 1, i) \o <<p>> \o SubSeq(x, i + 1, Len(x)) : i \in 0..Len(x), p \in chars}
Deleted(x, chars) ==
    {SubSeq(x, 1, i - 1) \o SubSeq(x, i + 1, Len(x)) :
        i \in {j \in DOMAIN x : x[j] \in chars}}
Variants(x) ==
    {[x EXCEPT ![i] = OtherCase(x[i])] :
        i \in {j \in DOMAIN x : x[j] \in UpperLetters \cup LowerLetters}}
    \cup {[x EXCEPT ![i] = c] :
            i \in {j \in DOMAIN x : x[j] \in Separators}, c \in Separators}
    \cup Inserted(x, Punctuation)
    \cup Deleted(x, Punctuation)

\* and those that have one underscore or hyphen more or less
VariantsAsWorded(x) ==
    Variants(x) \cup Inserted(x, {"_", "-"}) \cup Deleted(x, {"_", "-"})

\* C4, as the claim words it: a string and every string that differs from it
\* only in the case of a letter, in an underscore or hyphen, or in a punctuation
\* character normalize to the same key.
C4_AsWorded ==
    (pc = "returned" /\ call.fn = "_norm_key" /\ IsStr(call.args[1])) =>
        \A y \in VariantsAsWorded(call.args[1]) : _norm_key(y) = ret

\* C4, amended: a string and every string that differs from it only in the case
\* of a letter, in which of space, underscore and hyphen stands at a place, or
\* in a punctuation character other than underscore and hyphen normalize to the
\* same key; "Red Sandalwood", "red_sandalwood" and "RED-SANDALWOOD!!" all give
\* "red sandalwood".
C4_VariantsNormalizeAlike ==
    (pc = "returned" /\ call.fn = "_norm_key" /\ IsStr(call.args[1])) =>
        /\ \A y \in Variants(call.args[1]) : _norm_key(y) = ret
        /\ call.args[1] \in {RedSandalwood, Red_sandalwood, RED_SANDALWOOD} =>
               ret = S_red_sandalwood

C4_Witness ==
    /\ pc = "returned"
    /\ call.fn = "_norm_key"
    /\ call.args[1] = RED_SANDALWOOD
    /\ ret = S_red_sandalwood
    /\ Red_sandalwood # RedSandalwood
    /\ Cardinality(Variants(call.args[1])) > Len(call.args[1])

\* C5: normalizing a key that _norm_key returned gives the same key back.
C5_NormKeyIdempotent ==
    (pc = "returned" /\ call.fn = "_norm_key" /\ call.seq = 2) => ret = call.args[1]

C5_Witness ==
    /\ pc = "returned"
    /\ call.fn = "_norm_key"
    /\ call.seq = 2
    /\ ret = call.args[1]
    /\ ret = <<"a", " ", "b">>

-----------------------------------------------------------------------------
(* Specification SpecSlug: calls of the memoized slugify, one after another *)

SlugAlphabet == {"a", "B", "7", " ", "_", "-", "!"}

SantalumAlbum == <<"S","a","n","t","a","l","u","m"," ","a","l","b","u","m">>

\* the objects a NaN argument can be
Objects == {"o1", "o2"}

SlugInputs ==
    {<<>>} \cup {<<c>> : c \in SlugAlphabet}
        \cup {NoneVal, BoolTrue, IntOne, FloatOne,
              SantalumAlbum,
              <<" ","A","_","_","b"," ">>,
              <<"a","-","!","-","b">>,
              <<"-","-","a","-","-">>,
              <<"_"," ","_">>,
              <<"a"," ","-"," ","b">>,
              <<"A","b"," ","7","!">>,
              <<"-","!","-">>,
              <<"a","\t","b">>,
              <<"\f","a","\f","b">>,
              NaN,
              <<"x","-","-","y"," ","z">>}

InitSlug ==
    /\ pc = "idle"
    /\ call = NoCall
    /\ ret = NoneVal
    /\ slug_cache = <<>>
    /\ NoSheet /\ NoIcons /\ Unloaded

CallSlugify ==
    /\ pc = "idle"
    /\ call.seq < MaxSlugCalls
    /\ \E name \in SlugInputs, object \in Objects :
          LET c == lru_cache_call(slug_cache, make_key(name, object))
          IN  /\ call' = [fn |-> "slugify", args |-> <<name>>, seq |-> call.seq + 1]
              /\ ret' = c.value
              /\ slug_cache' = c.cache
    /\ UNCHANGED <<pc, sheet, icon_files, photo_files, SPECIES_ICON_INDEX,
                   LEAF_ICON_INDEX, FRUIT_ICON_INDEX, SPECIES_LIST, SPECIES_DICT,
                   FILTERS>>

NextSlug == CallSlugify

SpecSlug == InitSlug /\ [][NextSlug]_vars

SlugChars == LowerLetters \cup Digits \cup {"-"}

WellFormedSlug(s) ==
    /\ \A i \in DOMAIN s : s[i] \in SlugChars
    /\ s # <<>> => (s[1] # "-" /\ s[Len(s)] # "-")
    /\ \A i \in 1..(Len(s) - 1) : ~(s[i] = "-" /\ s[i + 1] = "-")

SlugWellFormedAndStableOnOwnKey ==
    call.fn = "slugify" =>
        /\ WellFormedSlug(ret)
        /\ call.args[1] \notin {BoolTrue, FloatOne} => ret = slugify(call.args[1])

SlugNaNHitMovesItsEntry ==
    /\ call.fn = "slugify"
    /\ call.seq = 3
    /\ call.args[1] = NaN
    /\ slug_cache = << <<<<"NaN", "o2">>, <<"n","a","n">> >>,
                       <<<<"NaN", "o1">>, <<"n","a","n">> >> >>

-----------------------------------------------------------------------------
(* Specification SpecLeaf: _leaf_category_and_subtype applied to a text *)

LeafPieces ==
    {<<"S","i","m","p","l","e">>,
     <<"p","i","n","n","a","t","e">>,
     <<"P","i","n","n","a","t","e","l","y">>,
     <<"C","O","M","P","O","U","N","D">>,
     <<"P","a","l","m","a","t","e">>,
     <<"(","S","i","n","g","l","e",")">>,
     <<"(","d","o","u","b","l","e",")">>,
     <<"(","T","R","I","P","L","E",")">>,
     <<"(","q","u","a","d",")">>,
     <<" ">>,
     <<"l","e","a","f">>}

RECURSIVE Concat(_)
Concat(ss) == IF ss = <<>> THEN <<>> ELSE Head(ss) \o Concat(Tail(ss))

LeafPinnatelyDouble == <<"P","i","n","n","a","t","e","l","y"," ","c","o","m","p","o","u","n","d"," ","(","d","o","u","b","l","e",")">>
LeafSimpleLeaf == <<"S","i","m","p","l","e"," ","l","e","a","f">>
LeafUnknown == <<"u","n","k","n","o","w","n"," ","t","e","x","t">>

LeafInputs ==
    {Concat(ps) : ps \in Strings(LeafPieces, MaxPieces)}
        \cup {NoneVal, LeafPinnatelyDouble, LeafSimpleLeaf, S_compound, LeafUnknown,
              <<" ","P","a","l","m","a","t","e"," ","c","o","m","p","o","u","n","d"," ","(","T","r","i","p","l","e",")"," ">>, <<"b","i","p","i","n","n","a","t","e"," ","(","s","i","n","g","l","e",")"," ","(","d","o","u","b","l","e",")">>}

InitLeaf ==
    /\ pc = "call"
    /\ \E t \in LeafInputs :
          call = [fn |-> "_leaf_category_and_subtype", args |-> <<t>>, seq |-> 1]
    /\ ret = NoneVal
    /\ slug_cache = <<>>
    /\ NoSheet /\ NoIcons /\ Unloaded

CallLeaf ==
    /\ pc = "call"
    /\ call.fn = "_leaf_category_and_subtype"
    /\ ret' = _leaf_category_and_subtype(call.args[1])
    /\ pc' = "returned"
    /\ UNCHANGED <<call, sheet, icon_files, photo_files, SPECIES_ICON_INDEX,
                   LEAF_ICON_INDEX, FRUIT_ICON_INDEX, SPECIES_LIST, SPECIES_DICT,
                   FILTERS, slug_cache>>

NextLeaf == CallLeaf

SpecLeaf == InitLeaf /\ [][NextLeaf]_vars

\* the text holds, in any case, the tag "(w)"
HasTag(text, w) == Contains(Lower(text), <<"(">> \o w \o <<")">>)

\* C7: the rules apply to the text whatever its case, the first that matches
\* deciding: "simple" gives (Simple, None); else "pinnate" or "compound" gives
\* Pinnately compound with the lower-cased word of a (single|double|triple) tag
\* of the text, None when it has no such tag; else "palmate" gives (Palmately
\* compound, None); else (None, None).  "compound" alone gives Pinnately
\* compound and a value that is no string gives (None, None).
C7_LeafRulesInOrder ==
    (pc = "returned" /\ call.fn = "_leaf_category_and_subtype") =>
        LET text == call.args[1]
            tl == Lower(text)
        IN  /\ text = NoneVal => ret = <<NoneVal, NoneVal>>
            /\ text # NoneVal =>
                 IF Contains(tl, S_simple) THEN ret = <<Simple, NoneVal>>
                 ELSE IF Contains(tl, S_pinnate) \/ Contains(tl, S_compound)
                 THEN /\ ret[1] = PinnatelyCompound
                      /\ IF \E w \in Range(TagWords) : HasTag(text, w)
                         THEN ret[2] \in Range(TagWords) /\ HasTag(text, ret[2])
                         ELSE ret[2] = NoneVal
                 ELSE IF Contains(tl, S_palmate) THEN ret = <<PalmatelyCompound, NoneVal>>
                 ELSE ret = <<NoneVal, NoneVal>>
            /\ text = S_compound => ret = <<PinnatelyCompound, NoneVal>>
            /\ text = LeafPinnatelyDouble => ret = <<PinnatelyCompound, S_double>>
            /\ text = LeafSimpleLeaf => ret = <<Simple, NoneVal>>
            /\ text = LeafUnknown => ret = <<NoneVal, NoneVal>>

\* a text with "palmate" and "compound", which the second rule takes
C7_Witness ==
    /\ pc = "returned"
    /\ call.fn = "_leaf_category_and_subtype"
    /\ Contains(Lower(call.args[1]), S_palmate)
    /\ Contains(Lower(call.args[1]), S_compound)
    /\ HasTag(call.args[1], S_triple)
    /\ ret = <<PinnatelyCompound, S_triple>>

-----------------------------------------------------------------------------
(* Directory listings *)

NoDir == [isdir |-> FALSE, entries |-> <<>>]

File(name) == [name |-> name, isfile |-> TRUE]
Dir(name) == [name |-> name, isfile |-> FALSE]

\* the listings that hold some of the entries of all, in the order of all, and
\* the missing directory
Listings(all) ==
    {[isdir |-> TRUE, entries |-> SelectSeq(all, LAMBDA e : e \in S)] :
        S \in SUBSET Range(all)} \cup {NoDir}

-----------------------------------------------------------------------------
(* Specification SpecSpeciesIcon: _pick_species_icon over a species index *)

FicusBanyan == <<"F","i","c","u","s"," ","b","e","n","g","h","a","l","e","n","s","i","s"," ","(","B","a","n","y","a","n",")">>
Ficus == <<"F","i","c","u","s"," ","b","e","n","g","h","a","l","e","n","s","i","s">>
S_ficus == <<"f","i","c","u","s"," ","b","e","n","g","h","a","l","e","n","s","i","s">>

SpeciesEntries ==
    << File(<<"F","i","c","u","s","_","b","e","n","g","h","a","l","e","n","s","i","s",".","p","n","g">>), File(<<"b","a","n","y","a","n",".","J","P","G">>), File(<<"N","e","e","m",".","w","e","b","p">>),
       File(<<"n","e","e","m",".","t","x","t">>), File(<<"N","E","E","M","!",".","g","i","f">>), File(<<"n","e","\\","e","m",".","P","N","G">>), Dir(<<"f","i","c","u","s"," ","b","e","n","g","h","a","l","e","n","s","i","s"," ","b","a","n","y","a","n",".","p","n","g">>) >>

SciNames ==
    {<<>>, FicusBanyan, Ficus, <<"(","I","n","d","i","a","n",")"," ","N","e","e","m"," ","(","t","r","e","e",")">>, <<"N","e","e","m">>,
     <<"B","a","n","y","a","n"," ","(","f","i","g","\n",")">>, <<" ","(","x",")"," ">>}
CommonNames ==
    {NoneVal, <<>>, <<"B","a","n","y","a","n">>, <<"n","e","e","m">>, <<"B","a","n","y","a","n"," ","(","B","a","r","g","a","d",")">>,
     <<"N","e","e","m"," ","(","(","a",")",")">>}

InitSpeciesIcon ==
    /\ pc = "call"
    /\ \E sci \in SciNames, com \in CommonNames :
          call = [fn |-> "_pick_species_icon", args |-> <<sci, com>>, seq |-> 1]
    /\ ret = NoneVal
    /\ slug_cache = <<>>
    /\ NoSheet /\ Unloaded
    /\ \E listing \in Listings(SpeciesEntries) :
          icon_files = [d \in {SpeciesDir, LeafDir, FruitDir} |->
                           IF d = SpeciesDir THEN listing ELSE NoDir]
    /\ SPECIES_ICON_INDEX = _build_icon_index(SpeciesDir)
    /\ LEAF_ICON_INDEX = EmptyDict
    /\ FRUIT_ICON_INDEX = EmptyDict

CallPickSpeciesIcon ==
    /\ pc = "call"
    /\ call.fn = "_pick_species_icon"
    /\ ret' = _pick_species_icon(call.args[1], call.args[2])
    /\ pc' = "returned"
    /\ UNCHANGED <<call, sheet, icon_files, photo_files, SPECIES_ICON_INDEX,
                   LEAF_ICON_INDEX, FRUIT_ICON_INDEX, SPECIES_LIST, SPECIES_DICT,
                   FILTERS, slug_cache>>

NextSpeciesIcon == CallPickSpeciesIcon

SpecSpeciesIcon == InitSpeciesIcon /\ [][NextSpeciesIcon]_vars

\* the candidates as the claim lists them
ClaimedCandidates(scientific, common) ==
    LET s == IF scientific = NoneVal THEN <<>> ELSE scientific
        c == IF common = NoneVal THEN <<>> ELSE common
        s2 == StripChars(ParenStrip(s), Whitespace)
        c2 == StripChars(ParenStrip(c), Whitespace)
        more1 == IF s2 # <<>> /\ s2 \notin {s, c} THEN <<s2>> ELSE <<>>
        more2 == IF c2 # <<>> /\ c2 \notin {s, c} \cup Range(more1) THEN <<c2>> ELSE <<>>
    IN  <<s, c>> \o more1 \o more2

\* C8: the candidates are the scientific name, the common name, then what is
\* left of each without its parenthesized parts, trimmed, when that is not empty
\* and not a candidate yet; the result is the path the index holds for the first
\* candidate whose normalized key it has, and None exactly when it has the key
\* of none.  "Ficus benghalensis (Banyan)" resolves in an index whose only key
\* is "ficus benghalensis".
C8_SpeciesIconFirstCandidate ==
    (pc = "returned" /\ call.fn = "_pick_species_icon") =>
        LET cands == ClaimedCandidates(call.args[1], call.args[2])
            hits == {i \in DOMAIN cands : _norm_key(cands[i]) \in DOMAIN SPECIES_ICON_INDEX}
        IN  /\ hits = {} <=> ret = NoneVal
            /\ \A i \in hits :
                  (\A j \in hits : i <= j) => ret = SPECIES_ICON_INDEX[_norm_key(cands[i])]
            /\ (call.args[1] = FicusBanyan /\ DOMAIN SPECIES_ICON_INDEX = {S_ficus}) =>
                  ret = SPECIES_ICON_INDEX[S_ficus]

\* the name with "(Banyan)" resolves through its stripped form alone
C8_Witness ==
    /\ pc = "returned"
    /\ call.fn = "_pick_species_icon"
    /\ call.args[1] = FicusBanyan
    /\ DOMAIN SPECIES_ICON_INDEX = {S_ficus}
    /\ ret = AssetPath(SpeciesDir, <<"F","i","c","u","s","_","b","e","n","g","h","a","l","e","n","s","i","s",".","p","n","g">>)

-----------------------------------------------------------------------------
(* Specification SpecFruitIcon: _pick_fruit_icon over a fruit index *)

FruitEntries ==
    << File(<<"P","o","d",".","p","n","g">>), File(<<"c","a","p","s","u","l","e",".","j","p","g">>), File(<<"d","r","u","p","e",".","t","x","t">>),
       File(<<"O","T","H","E","R",".","g","i","f">>), File(<<"w","i","n","g","e","d","-","p","o","d",".","b","m","p">>), File(<<"_",".","p","n","g">>),
       File(<<"N","a","N",".","p","n","g">>) >>

FruitTexts ==
    {NoneVal, NaN, <<>>, <<" ">>, <<"P","o","d">>, <<"p","o","d","!">>, <<"C","a","p","s","u","l","e">>, <<"d","r","u","p","e">>,
     <<"O","t","h","e","r">>, <<"B","e","r","r","y">>, <<"w","i","n","g","e","d"," ","p","o","d">>, <<"-">>}

InitFruitIcon ==
    /\ pc = "call"
    /\ \E t \in FruitTexts :
          call = [fn |-> "_pick_fruit_icon", args |-> <<t>>, seq |-> 1]
    /\ ret = NoneVal
    /\ slug_cache = <<>>
    /\ NoSheet /\ Unloaded
    /\ \E listing \in Listings(FruitEntries) :
          icon_files = [d \in {SpeciesDir, LeafDir, FruitDir} |->
                           IF d = FruitDir THEN listing ELSE NoDir]
    /\ SPECIES_ICON_INDEX = EmptyDict
    /\ LEAF_ICON_INDEX = EmptyDict
    /\ FRUIT_ICON_INDEX = _build_icon_index(FruitDir)

CallPickFruitIcon ==
    /\ pc = "call"
    /\ call.fn = "_pick_fruit_icon"
    /\ ret' = _pick_fruit_icon(call.args[1])
    /\ pc' = "returned"
    /\ UNCHANGED <<call, sheet, icon_files, photo_files, SPECIES_ICON_INDEX,
                   LEAF_ICON_INDEX, FRUIT_ICON_INDEX, SPECIES_LIST, SPECIES_DICT,
                   FILTERS, slug_cache>>

NextFruitIcon == CallPickFruitIcon

SpecFruitIcon == InitFruitIcon /\ [][NextFruitIcon]_vars

\* C10: an empty fruit type gives None; any other gives what the fruit index
\* holds for its normalized key, None when it has no such key: the aliases pod,
\* capsule, drupe and other never give anything else.
C10_FruitIconIsDirectLookup ==
    (pc = "returned" /\ call.fn = "_pick_fruit_icon") =>
        LET t == call.args[1]
        IN  IF t \in {NoneVal, <<>>} THEN ret = NoneVal
            ELSE ret = DictGet(FRUIT_ICON_INDEX, _norm_key(t))

\* an alias that the index lacks while it holds another alias
C10_Witness ==
    /\ pc = "returned"
    /\ call.fn = "_pick_fruit_icon"
    /\ _norm_key(call.args[1]) = S_pod
    /\ S_pod \notin DOMAIN FRUIT_ICON_INDEX
    /\ S_capsule \in DOMAIN FRUIT_ICON_INDEX
    /\ ret = NoneVal

-----------------------------------------------------------------------------
(* Specification Spec: the process imports app.py, which builds the three icon
   indexes and loads the sheet, and then serves requests *)

SciCells == {NaN, <<" ", "\f">>, <<" ","A"," ","b">>, <<"a","_","b">>, <<"!">>}
LeafCells == {NaN, <<"S","i","m","p","l","e">>, <<"c","o","m","p","o","u","n","d"," ","(","T","r","i","p","l","e",")">>, <<"P","i","n","n","a","t","e"," ","(","d","o","u","b","l","e",")"," ">>}

\* the row of a sheet that has every column
FullRow(sci, leaf) ==
    [c \in Range(REQUIRED_COLS) |->
        CASE c = "Sr No" -> <<"7">>
          [] c = "Scientific name" -> sci
          [] c = "Etymology" -> <<" ", "e", " ">>
          [] c = "Common name" -> IF leaf = NaN THEN NaN ELSE <<"N","e","e","m"," ","(","x",")">>
          [] c = "Habitat" -> NaN
          [] c = "Leaf type" -> leaf
          [] c = "Fruit Type" -> IF leaf = <<"S","i","m","p","l","e">> THEN <<"P","o","d"," ">>
                                 ELSE IF leaf = NaN THEN NaN ELSE <<"B","e","r","r","y">>
          [] OTHER -> <<"x">>]

FullRows == {FullRow(sci, leaf) : sci \in SciCells, leaf \in LeafCells}

\* the same row in a sheet that lacks some columns
Without(row, cols) == [c \in (DOMAIN row) \ cols |-> row[c]]

SheetColumnsMissing ==
    { {"Sr No", "Common name", "Leaf type"}, {"Scientific name"} }

\* no file, the sheets of up to MaxRows full rows, and the one-row sheets that
\* lack some columns
Sheets ==
    {[exists |-> FALSE, rows |-> <<>>]}
        \cup {[exists |-> TRUE, rows |-> rows] : rows \in Strings(FullRows, MaxRows)}
        \cup {[exists |-> TRUE, rows |-> <<Without(row, cols)>>] :
                row \in FullRows, cols \in SheetColumnsMissing}

LeafEntries ==
    << File(<<"S","i","m","p","l","e","-","L","e","a","f",".","p","n","g">>), File(<<"c","o","m","p","o","u","n","d",".","j","p","g">>),
       File(<<"D","o","u","b","l","e","_","C","o","m","p","o","u","n","d",".","P","N","G">>), Dir(<<"p","a","l","m","a","t","e",".","p","n","g">>) >>

IconFiles ==
    [d \in {SpeciesDir, LeafDir, FruitDir} |->
        [isdir |-> TRUE,
         entries |-> IF d = SpeciesDir THEN SpeciesEntries
                     ELSE IF d = LeafDir THEN LeafEntries ELSE FruitEntries]]

\* a photo root that holds one directory, a-b, with these names in it
PhotoRoot(names) ==
    [isdir |-> TRUE,
     dirs |-> [id \in {<<>>, <<"a", "-", "b">>} |->
                  IF id = <<>> THEN << <<"a", "-", "b">> >> ELSE names]]

PhotoNames ==
    << <<"2",".","J","P","G">>, <<"1","0",".","p","n","g">>, <<"n","o","t","e","s",".","t","x","t">>,
       <<"1",".","j","p","e","g">>, <<"b","\\","c",".","w","e","b","p">>, <<".","h",".","p","n","g">>,
       <<"+",".","g","i","f">> >>

\* both roots are directories, static/Photos alone is, neither is
PhotoFiles ==
    { [r \in Range(PhotoRootCandidates) |->
          IF r = "static/photos" THEN PhotoRoot(PhotoNames)
          ELSE PhotoRoot(<< <<"9",".","p","n","g">> >>)],
      [r \in Range(PhotoRootCandidates) |->
          IF r = "static/Photos" THEN PhotoRoot(PhotoNames) ELSE NoPhotoRoot],
      [r \in Range(PhotoRootCandidates) |-> NoPhotoRoot] }

ProbeIds == {<<"a", "-", "b">>, <<>>, <<" ","A"," ","b">>, <<"c">>}

Init ==
    /\ pc = "import"
    /\ call = NoCall
    /\ ret = NoneVal
    /\ slug_cache = <<>>
    /\ sheet \in Sheets
    /\ icon_files = IconFiles
    /\ photo_files \in PhotoFiles
    /\ SPECIES_ICON_INDEX = EmptyDict
    /\ LEAF_ICON_INDEX = EmptyDict
    /\ FRUIT_ICON_INDEX = EmptyDict
    /\ Unloaded

\* app.py:64-66
BuildIndexes ==
    /\ pc = "import"
    /\ SPECIES_ICON_INDEX' = _build_icon_index(ICON_DIRS.species)
    /\ LEAF_ICON_INDEX' = _build_icon_index(ICON_DIRS.leaf)
    /\ FRUIT_ICON_INDEX' = _build_icon_index(ICON_DIRS.fruit)
    /\ pc' = "indexed"
    /\ UNCHANGED <<call, ret, sheet, icon_files, photo_files, SPECIES_LIST,
                   SPECIES_DICT, FILTERS, slug_cache>>

\* app.py:214
Load ==
    /\ pc = "indexed"
    /\ \E out \in {load_and_process_data} :
           /\ SPECIES_LIST' = out.records_list
           /\ SPECIES_DICT' = out.records_dict
           /\ FILTERS' = out.filters
           /\ slug_cache' = out.cache
    /\ pc' = "serving"
    /\ UNCHANGED <<call, ret, sheet, icon_files, photo_files, SPECIES_ICON_INDEX,
                   LEAF_ICON_INDEX, FRUIT_ICON_INDEX>>

Serve(fn, args, response) ==
    /\ pc = "serving"
    /\ call' = [fn |-> fn, args |-> args, seq |-> 1]
    /\ ret' = response
    /\ UNCHANGED <<pc, sheet, icon_files, photo_files, SPECIES_ICON_INDEX,
                   LEAF_ICON_INDEX, FRUIT_ICON_INDEX, SPECIES_LIST, SPECIES_DICT,
                   FILTERS, slug_cache>>

Home == Serve("home", <<>>, home)

ApiSpecies == Serve("api_species", <<>>, api_species)

ApiSpeciesOne == \E rec_id \in ProbeIds :
                    Serve("api_species_one", <<rec_id>>, api_species_one(rec_id))

Next == BuildIndexes \/ Load \/ Home \/ ApiSpecies \/ ApiSpeciesOne

Spec == Init /\ [][Next]_vars

-----------------------------------------------------------------------------
(* The record builder and the endpoints, under Spec *)

\* the row has a scientific name: the cell is there, is not NaN and holds a
\* character that is not whitespace
NamePresent(row) ==
    /\ "Scientific name" \in DOMAIN row
    /\ row["Scientific name"] # NaN
    /\ \E k \in DOMAIN row["Scientific name"] : row["Scientific name"][k] \notin Whitespace

NamedRows == {i \in DOMAIN sheet.rows : NamePresent(sheet.rows[i])}

\* the k-th of the rows that have a name
NthNamedRow(k) ==
    sheet.rows[CHOOSE i \in NamedRows : Cardinality({j \in NamedRows : j <= i}) = k]

\* C1: the ordered list holds one record for each row that has a scientific
\* name which is not blank once trimmed, in the order of those rows in the
\* sheet, and nothing for any other row.
C1_OneRecordPerNamedRow ==
    pc = "serving" =>
        /\ Len(SPECIES_LIST) = Cardinality(NamedRows)
        /\ \A k \in DOMAIN SPECIES_LIST :
              LET row == NthNamedRow(k)
              IN  /\ SPECIES_LIST[k].scientific_name =
                        StripChars(row["Scientific name"], Whitespace)
                  /\ "Leaf type" \in DOMAIN row =>
                        SPECIES_LIST[k].leaf_type_raw =
                            StripChars(Str(row["Leaf type"]), Whitespace)

\* a blank row, then a row that has a name
C1_Witness ==
    /\ pc = "serving"
    /\ Len(sheet.rows) = 2
    /\ sheet.rows[1]["Scientific name"] = <<" ", "\f">>
    /\ sheet.rows[2]["Scientific name"] = <<" ","A"," ","b">>
    /\ Len(SPECIES_LIST) = 1
    /\ SPECIES_LIST[1].scientific_name = <<"A", " ", "b">>
    /\ DOMAIN SPECIES_DICT = {<<"a", "-", "b">>}

\* the last record of the ordered list with that id
LastWithId(id) ==
    SPECIES_LIST[CHOOSE i \in DOMAIN SPECIES_LIST :
                    /\ SPECIES_LIST[i].id = id
                    /\ \A j \in DOMAIN SPECIES_LIST : SPECIES_LIST[j].id = id => j <= i]

\* C2: the keys of the id-keyed map are the ids of the records of the ordered
\* list, each id the slug of its record's name, and the map holds under each key
\* the last record of the list with that id; the list keeps every record.
C2_DictHoldsLastOfEachSlug ==
    pc = "serving" =>
        /\ DOMAIN SPECIES_DICT = {SPECIES_LIST[i].id : i \in DOMAIN SPECIES_LIST}
        /\ \A i \in DOMAIN SPECIES_LIST :
              SPECIES_LIST[i].id = slugify(SPECIES_LIST[i].scientific_name)
        /\ \A id \in DOMAIN SPECIES_DICT : SPECIES_DICT[id] = LastWithId(id)

\* two rows of one slug: both are in the list, the later one in the map
C2_Witness ==
    /\ pc = "serving"
    /\ Len(SPECIES_LIST) = 2
    /\ SPECIES_LIST[1].id = SPECIES_LIST[2].id
    /\ SPECIES_LIST[1] # SPECIES_LIST[2]
    /\ DOMAIN SPECIES_DICT = {SPECIES_LIST[2].id}
    /\ SPECIES_DICT[SPECIES_LIST[2].id] = SPECIES_LIST[2]

NotFound == [status |-> 404, body |-> [error |-> "Not found"]]

\* C3: api_species_one answers with the record the map holds under the id when
\* the id is a key of the map and with not-found for any other id; no request
\* changes the ordered list, the map or the filters summary.
C3_GetByIdReadsTheMap ==
    /\ [](call.fn = "api_species_one" =>
            IF call.args[1] \in DOMAIN SPECIES_DICT
            THEN ret = [status |-> 200, body |-> SPECIES_DICT[call.args[1]]]
            ELSE ret = NotFound)
    /\ [][pc = "serving" => UNCHANGED <<SPECIES_LIST, SPECIES_DICT, FILTERS>>]_vars

\* the id of two records is asked for, and the later one is served
C3_Witness ==
    /\ call.fn = "api_species_one"
    /\ Len(SPECIES_LIST) = 2
    /\ SPECIES_LIST[1].id = call.args[1]
    /\ SPECIES_LIST[2].id = call.args[1]
    /\ SPECIES_LIST[1] # SPECIES_LIST[2]
    /\ ret = [status |-> 200, body |-> SPECIES_LIST[2]]

\* C9: every record has a leaf category among Simple, Pinnately compound,
\* Palmately compound and None, and a leaf subtype among single, double and
\* None.
C9_LeafFieldsInRange ==
    pc = "serving" =>
        \A i \in DOMAIN SPECIES_LIST :
            /\ SPECIES_LIST[i].leaf_category \in Range(LEAF_TOPLEVEL) \cup {NoneVal}
            /\ SPECIES_LIST[i].leaf_subtype \in Range(LEAF_SUBTYPES) \cup {NoneVal}

====
